---------------------------- MODULE Spec2Model ----------------------------
(***************************************************************************)
(* A model of the amtrak-api client (src/src/client.rs, src/src/errors.rs). *)
(*                                                                         *)
(* One Client value (its base_url) is shared by a set of callers.  Each    *)
(* caller runs one of the eight operations: it formats the URL, sends one  *)
(* GET, awaits the response, awaits the body, decodes it and returns.      *)
(* A response body is a sequence of lexemes (pieces of JSON text, or a     *)
(* byte that is not UTF-8); the decoders parse that sequence.              *)
(***************************************************************************)
EXTENDS Naturals, Sequences, FiniteSets, TLC

VARIABLES
    base_url,   \* Client.base_url
    pc,         \* per caller: "idle", "send" (awaiting send()), "body" (awaiting json()/bytes()),
                \* "done" (returned), "cancelled" (its future dropped while awaiting)
    req,        \* per caller: the operation called, its argument and the URL it requested
    status,     \* per caller: HTTP status of the response received (0: none yet)
    bytes,      \* per caller: the body received
    result,     \* per caller: the value the operation returned
    sent,       \* per caller: number of GET requests issued
    decoded     \* per caller: number of decode attempts made

vars == <<base_url, pc, req, status, bytes, result, sent, decoded>>

----------------------------------------------------------------------------
(* Bounds and input sets *)

\* Longest response body (in lexemes) of the exhaustive-body specification.
MaxBodyLen == 3

\* The callers sharing the client value.
Calls == {"c1", "c2"}

BASE_API_URL == "https://api-v3.amtraker.com/v3"

\* Client::new() and Client::with_base_url(server.url()).
BaseUrls == {BASE_API_URL, "http://127.0.0.1:1234"}

\* Arguments of train(id) and station(code).
Identifiers == {"612-5", "ABC"}

StatusCodes == {200, 404}

----------------------------------------------------------------------------
(* Response bodies *)

LBracket == "["
RBracket == "]"
LBrace == "{"
RBrace == "}"
Comma == ","
Space == " "
Junk == "x"
\* A byte that makes the body invalid UTF-8 (written here in escaped form).
InvalidByte == "\\xFF"

\* "key": value pairs of a JSON object, each taken as one lexeme.
StationEntry ==
    "\"ABE\":{\"name\":\"Aberdeen\",\"code\":\"ABE\",\"tz\":\"America/New_York\",\"lat\":39.508447,\"lon\":-76.16326,\"address1\":\"18 East Bel Air Avenue\",\"address2\":\" \",\"city\":\"Aberdeen\",\"state\":\"MD\",\"zip\":\"21001\",\"trains\":[]}"
NoCodeEntry ==
    "\"ABE\":{\"name\":\"Aberdeen\",\"tz\":\"America/New_York\",\"lat\":39.508447,\"lon\":-76.16326,\"address1\":\"18 East Bel Air Avenue\",\"address2\":\" \",\"city\":\"Aberdeen\",\"state\":\"MD\",\"zip\":\"21001\",\"trains\":[]}"
TrainEntry == "\"612\":[]"
ErrorEntry == "\"error\":\"Train not found\""

\* Status strings of a stop record: the three the service documents, and two
\* it does not.
StatusTokens == {"Enroute", "Station", "Departed", "Delayed", "enroute"}

\* A train whose itinerary has one stop, with the given status string.
TrainStopEntry(tok) ==
    "\"612\":[{\"trainID\":\"612-5\",\"stations\":[{\"code\":\"PHL\",\"status\":\""
        \o tok \o "\"}]}]"

StopEntries == {TrainStopEntry(tok) : tok \in StatusTokens}

\* The status string of a stop entry.
StatusTokenOf(e) == CHOOSE tok \in StatusTokens : e = TrainStopEntry(tok)

\* TrainStatus, had it compared the status string without regard to case.
TrainStatusIgnoringCase(tok) ==
    CASE tok \in {"Enroute", "enroute"} -> "Enroute"
      [] tok = "Station" -> "Station"
      [] tok = "Departed" -> "Departed"
      [] OTHER -> "Unknown"

\* Deserialize of TrainStatus: any string that is not one of the three known
\* ones is Unknown.
TrainStatus(tok) ==
    CASE tok = "Enroute" -> "Enroute"
      [] tok = "Station" -> "Station"
      [] tok = "Departed" -> "Departed"
      [] OTHER -> "Unknown"

Entries == {StationEntry, NoCodeEntry, TrainEntry, ErrorEntry} \cup StopEntries

Lexemes == {LBracket, RBracket, LBrace, RBrace, Comma, Space, Junk, InvalidByte} \cup Entries

\* The key of an entry and the shape of its value.
EntryKey(e) ==
    CASE e = StationEntry -> "ABE"
      [] e = NoCodeEntry -> "ABE"
      [] e = TrainEntry -> "612"
      [] e \in StopEntries -> "612"
      [] OTHER -> "error"

EntryShape(e) ==
    CASE e = StationEntry -> "station"
      [] e = NoCodeEntry -> "object"
      [] e = TrainEntry -> "trains"
      [] e \in StopEntries -> "trains"
      [] OTHER -> "string"

\* The decoded status of every stop of an entry's trains.
EntryStops(e) == IF e \in StopEntries THEN <<TrainStatus(StatusTokenOf(e))>> ELSE <<>>

SeqsUpTo(n) == UNION {[1..k -> Lexemes] : k \in 0..n}

\* Every body of at most MaxBodyLen lexemes.
Bodies == SeqsUpTo(MaxBodyLen)

\* The bodies of the concurrent specification.
SampleBodies ==
    { <<LBracket, RBracket>>,
      <<LBracket, RBracket, Junk>>,
      <<LBrace, StationEntry, RBrace>>,
      <<LBrace, TrainEntry, RBrace>>,
      <<LBrace, NoCodeEntry, RBrace>>,
      <<LBrace, ErrorEntry, RBrace>>,
      <<InvalidByte>> }

RECURSIVE Text(_)
\* The body written out as text.
Text(b) == IF b = <<>> THEN "" ELSE Head(b) \o Text(Tail(b))

IsUtf8(b) == \A i \in 1..Len(b) : b[i] # InvalidByte

UTF8_FALLBACK == "Failed to convert bytes to string"

\* std::str::from_utf8(bytes).unwrap_or("Failed to convert bytes to string").to_string()
ResponseText(b) == IF IsUtf8(b) THEN Text(b) ELSE UTF8_FALLBACK


----------------------------------------------------------------------------
(* Decoding *)

ParseOk(v, n) == [ok |-> TRUE, value |-> v, path |-> "", next |-> n]
\* A failed decode and the path at which it failed ("." is the document root).
ParseFail(p) == [ok |-> FALSE, value |-> {}, path |-> p, next |-> 0]

RECURSIVE SkipWs(_, _)
\* The first position at or after i that holds no whitespace.
SkipWs(b, i) == IF i <= Len(b) /\ b[i] = Space THEN SkipWs(b, i + 1) ELSE i

RECURSIVE ParseMap(_, _, _, _, _)
\* The entries of a JSON object from position i on, up to its closing brace;
\* every value must have the given shape, and a key met again replaces the
\* entry it had (HashMap insertion).  expect: "first" right after the
\* opening brace, "more" after an entry, "key" after a comma.
ParseMap(b, i, shape, acc, expect) ==
    LET j == SkipWs(b, i) IN
    IF j > Len(b) THEN ParseFail(".")
    ELSE IF b[j] = RBrace /\ expect \in {"first", "more"} THEN ParseOk(acc, j + 1)
    ELSE IF b[j] = Comma /\ expect = "more" THEN ParseMap(b, j + 1, shape, acc, "key")
    ELSE IF b[j] \in Entries /\ expect \in {"first", "key"} THEN
        IF EntryShape(b[j]) = shape
        THEN ParseMap(b, j + 1, shape,
                      {r \in acc : r.key # EntryKey(b[j])}
                          \cup {[key |-> EntryKey(b[j]), entity |-> shape,
                                 stops |-> EntryStops(b[j])]}, "more")
        ELSE ParseFail(EntryKey(b[j]))
    ELSE ParseFail(".")

\* The response wrappers: a JSON object is decoded as the mapping, an empty
\* JSON array as the empty mapping, anything else fails.
DeserializeWrapper(b, shape) ==
    LET i == SkipWs(b, 1) IN
    IF i > Len(b) THEN ParseFail(".")
    ELSE IF b[i] = LBracket THEN
        LET j == SkipWs(b, i + 1) IN
        IF j <= Len(b) /\ b[j] = RBracket THEN ParseOk({}, j + 1) ELSE ParseFail(".")
    ELSE IF b[i] = LBrace THEN ParseMap(b, i + 1, shape, {}, "first")
    ELSE ParseFail(".")

TrainResponseWrapper(b) == DeserializeWrapper(b, "trains")
StationResponseWrapper(b) == DeserializeWrapper(b, "station")

Wrapper(b, shape) ==
    IF shape = "trains" THEN TrainResponseWrapper(b) ELSE StationResponseWrapper(b)

\* Response::json::<T>(): serde_json::from_slice, which decodes one value and
\* then requires that only whitespace follows it.
json(b, shape) ==
    LET r == Wrapper(b, shape) IN
    IF r.ok /\ SkipWs(b, r.next) <= Len(b) THEN ParseFail(".") ELSE r

\* serde_path_to_error::deserialize(&mut Deserializer::from_slice(bytes)):
\* decodes one value and never looks at what follows it.
serde_path_to_error_deserialize(b, shape) == Wrapper(b, shape)

----------------------------------------------------------------------------
(* Results *)

Pending == [tag |-> "Pending", value |-> {}, type |-> "", kind |-> "", cause |-> "",
            path |-> "", response |-> ""]

Ok(v) == [tag |-> "Ok", value |-> v, type |-> "", kind |-> "", cause |-> "",
          path |-> "", response |-> ""]

\* An error of enum `type` ("Error" or "DebuggingError"), variant `kind`.
\* cause is the kind of the wrapped reqwest::Error, if any.
Err(type, kind, cause, path, response) ==
    [tag |-> "Err", value |-> {}, type |-> type, kind |-> kind, cause |-> cause,
     path |-> path, response |-> response]

PlainOps == {"trains", "train", "stations", "station"}
DebugOps == {"trains_with_debugging", "train_with_debugging",
             "stations_with_debugging", "station_with_debugging"}
Ops == PlainOps \cup DebugOps

\* The error enum an operation returns: Result<T> or DebuggingResult<T>.
ErrorType(op) == IF op \in DebugOps THEN "DebuggingError" ELSE "Error"

\* The wrapper type an operation decodes into.
WrapperOf(op) ==
    IF op \in {"trains", "train", "trains_with_debugging", "train_with_debugging"}
    THEN "trains" ELSE "station"

\* `?` on a reqwest::Error: From<reqwest::Error> gives RequestFailed.
RequestFailed(op, cause) == Err(ErrorType(op), "RequestFailed", cause, "", "")

\* PlainReturn, had it reported an empty mapping as an error of the service.
PlainReturnEmptyIsError(op, b) ==
    LET r == json(b, WrapperOf(op)) IN
    IF ~r.ok THEN RequestFailed(op, "decode")
    ELSE IF r.value = {} THEN Err("Error", "ApiErrorResponse", "", "", "")
    ELSE Ok(r.value)

\* .json::<W>().await?; Ok(response.0)
PlainReturn(op, b) ==
    LET r == json(b, WrapperOf(op)) IN
    IF r.ok THEN Ok(r.value) ELSE RequestFailed(op, "decode")

\* DebuggingReturn, had it dropped the response text from the error.
DebuggingReturnNoResponse(op, b) ==
    LET r == serde_path_to_error_deserialize(b, WrapperOf(op)) IN
    IF r.ok THEN Ok(r.value)
    ELSE Err("DebuggingError", "DeserializeFailed", "", r.path, "")

\* serde_path_to_error::deserialize(..).map_err(DeserializeFailed {..})?; Ok(response.0)
DebuggingReturn(op, b) ==
    LET r == serde_path_to_error_deserialize(b, WrapperOf(op)) IN
    IF r.ok THEN Ok(r.value)
    ELSE Err("DebuggingError", "DeserializeFailed", "", r.path, ResponseText(b))

Return(op, b) == IF op \in DebugOps THEN DebuggingReturn(op, b) ELSE PlainReturn(op, b)

----------------------------------------------------------------------------
(* The client *)

NoRequest == [op |-> "", arg |-> "", url |-> ""]

\* Client::new() / Client::with_base_url(base): all callers idle.
InitWith(base) ==
    /\ base_url = base
    /\ pc = [c \in Calls |-> "idle"]
    /\ req = [c \in Calls |-> NoRequest]
    /\ status = [c \in Calls |-> 0]
    /\ bytes = [c \in Calls |-> <<>>]
    /\ result = [c \in Calls |-> Pending]
    /\ sent = [c \in Calls |-> 0]
    /\ decoded = [c \in Calls |-> 0]

Init == \E base \in BaseUrls : InitWith(base)

\* reqwest::Client::new().get(url).send(): caller c issues one GET for url
\* and awaits the response.
Get(c, op, arg, url) ==
    /\ pc[c] = "idle"
    /\ pc' = [pc EXCEPT ![c] = "send"]
    /\ req' = [req EXCEPT ![c] = [op |-> op, arg |-> arg, url |-> url]]
    /\ sent' = [sent EXCEPT ![c] = @ + 1]
    /\ UNCHANGED <<base_url, status, bytes, result, decoded>>

trains(c) == Get(c, "trains", "", base_url \o "/trains")

trains_with_debugging(c) == Get(c, "trains_with_debugging", "", base_url \o "/trains")

train(c, id) == Get(c, "train", id, base_url \o "/trains/" \o id)

\* train_with_debugging, had it formatted the path as /train/{id}.
train_with_debugging_wrong_path(c, id) ==
    Get(c, "train_with_debugging", id, base_url \o "/train/" \o id)

train_with_debugging(c, id) ==
    Get(c, "train_with_debugging", id, base_url \o "/trains/" \o id)

stations(c) == Get(c, "stations", "", base_url \o "/stations")

stations_with_debugging(c) ==
    Get(c, "stations_with_debugging", "", base_url \o "/stations")

station(c, code) == Get(c, "station", code, base_url \o "/stations/" \o code)

station_with_debugging(c, code) ==
    Get(c, "station_with_debugging", code, base_url \o "/stations/" \o code)

\* SendError, had it gone on to decode an empty body.
SendErrorDecodes(c) ==
    /\ pc[c] = "send"
    /\ pc' = [pc EXCEPT ![c] = "done"]
    /\ decoded' = [decoded EXCEPT ![c] = @ + 1]
    /\ result' = [result EXCEPT ![c] = Return(req[c].op, <<>>)]
    /\ UNCHANGED <<base_url, req, status, bytes, sent>>

\* SendError, had it sent the request again.
SendErrorRetries(c) ==
    /\ pc[c] = "send"
    /\ sent' = [sent EXCEPT ![c] = @ + 1]
    /\ UNCHANGED <<base_url, pc, req, status, bytes, result, decoded>>

\* send().await? fails: the operation returns RequestFailed.
SendError(c) ==
    /\ pc[c] = "send"
    /\ pc' = [pc EXCEPT ![c] = "done"]
    /\ result' = [result EXCEPT ![c] = RequestFailed(req[c].op, "request")]
    /\ UNCHANGED <<base_url, req, status, bytes, sent, decoded>>

\* send().await? yields a response, whatever its status; the body is awaited next.
Response(c, s) ==
    /\ pc[c] = "send"
    /\ pc' = [pc EXCEPT ![c] = "body"]
    /\ status' = [status EXCEPT ![c] = s]
    /\ UNCHANGED <<base_url, req, bytes, result, sent, decoded>>

\* BodyError, had it reported the failure as a failure to decode.
BodyErrorAsDecodeFailure(c) ==
    /\ pc[c] = "body"
    /\ pc' = [pc EXCEPT ![c] = "done"]
    /\ result' = [result EXCEPT ![c] =
          Err(ErrorType(req[c].op), "DeserializeFailed", "", ".", "")]
    /\ UNCHANGED <<base_url, req, status, bytes, sent, decoded>>

\* Reading the body fails (json().await? / bytes().await?): RequestFailed.
BodyError(c) ==
    /\ pc[c] = "body"
    /\ pc' = [pc EXCEPT ![c] = "done"]
    /\ result' = [result EXCEPT ![c] = RequestFailed(req[c].op, "body")]
    /\ UNCHANGED <<base_url, req, status, bytes, sent, decoded>>

\* Body, had the callers shared one buffer: the body decoded is the one the
\* buffer held last.
BodyShared(c, b) ==
    /\ pc[c] = "body"
    /\ pc' = [pc EXCEPT ![c] = "done"]
    /\ bytes' = [bytes EXCEPT ![c] = b]
    /\ decoded' = [decoded EXCEPT ![c] = @ + 1]
    /\ result' = [result EXCEPT ![c] =
          IF \E d \in Calls \ {c} : decoded[d] = 1
          THEN Return(req[c].op, bytes[CHOOSE d \in Calls \ {c} : decoded[d] = 1])
          ELSE Return(req[c].op, b)]
    /\ UNCHANGED <<base_url, req, status, sent>>

\* Body, had the response been passed through error_for_status() first.
BodyErrorForStatus(c, b) ==
    /\ pc[c] = "body"
    /\ pc' = [pc EXCEPT ![c] = "done"]
    /\ bytes' = [bytes EXCEPT ![c] = b]
    /\ decoded' = [decoded EXCEPT ![c] = @ + 1]
    /\ result' = [result EXCEPT ![c] =
          IF status[c] >= 400 THEN RequestFailed(req[c].op, "status")
          ELSE Return(req[c].op, b)]
    /\ UNCHANGED <<base_url, req, status, sent>>

\* The whole body b has arrived: it is decoded and the operation returns.
Body(c, b) ==
    /\ pc[c] = "body"
    /\ pc' = [pc EXCEPT ![c] = "done"]
    /\ bytes' = [bytes EXCEPT ![c] = b]
    /\ decoded' = [decoded EXCEPT ![c] = @ + 1]
    /\ result' = [result EXCEPT ![c] = Return(req[c].op, b)]
    /\ UNCHANGED <<base_url, req, status, sent>>

\* The caller drops the future of the operation at one of its two .await
\* points: the operation runs no further and returns nothing.
Cancel(c) ==
    /\ pc[c] \in {"send", "body"}
    /\ pc' = [pc EXCEPT ![c] = "cancelled"]
    /\ UNCHANGED <<base_url, req, status, bytes, result, sent, decoded>>

Call(c) ==
    \/ trains(c)
    \/ trains_with_debugging(c)
    \/ \E id \in Identifiers : train(c, id)
    \/ \E id \in Identifiers : train_with_debugging(c, id)
    \/ stations(c)
    \/ stations_with_debugging(c)
    \/ \E code \in Identifiers : station(c, code)
    \/ \E code \in Identifiers : station_with_debugging(c, code)

Step(c, B) ==
    \/ Call(c)
    \/ SendError(c)
    \/ \E s \in StatusCodes : Response(c, s)
    \/ BodyError(c)
    \/ pc[c] = "body" /\ \E b \in B : Body(c, b)
    \/ Cancel(c)

\* Any interleaving of the callers' operations.
Next == \E c \in Calls : Step(c, SampleBodies)

Spec == Init /\ [][Next]_vars

\* One caller, every body of at most MaxBodyLen lexemes.
InitBodies == InitWith(BASE_API_URL)

NextBodies == Step("c1", Bodies)

SpecBodies == InitBodies /\ [][NextBodies]_vars

\* The lexemes a body arrives in, in the chunked specification.
ChunkLexemes == {LBracket, RBracket, LBrace, RBrace, StationEntry, TrainEntry, Junk}

\* Chunk, had the body been decoded as it streams in.
ChunkDecoded(c, l) ==
    /\ pc[c] = "body"
    /\ Len(bytes[c]) < MaxBodyLen
    /\ bytes' = [bytes EXCEPT ![c] = Append(@, l)]
    /\ decoded' = [decoded EXCEPT ![c] = 1]
    /\ result' = [result EXCEPT ![c] = Return(req[c].op, Append(bytes[c], l))]
    /\ UNCHANGED <<base_url, pc, req, status, sent>>

\* While json() / bytes() is awaited, the next piece of the body arrives and is
\* buffered.
Chunk(c, l) ==
    /\ pc[c] = "body"
    /\ Len(bytes[c]) < MaxBodyLen
    /\ bytes' = [bytes EXCEPT ![c] = Append(@, l)]
    /\ UNCHANGED <<base_url, pc, req, status, result, sent, decoded>>

\* The body ends: json() / bytes() resolves with everything buffered, which is
\* decoded, and the operation returns.
BodyEnd(c) == Body(c, bytes[c])

StepChunks(c) ==
    \/ Call(c)
    \/ SendError(c)
    \/ \E s \in StatusCodes : Response(c, s)
    \/ \E l \in ChunkLexemes : Chunk(c, l)
    \/ BodyError(c)
    \/ BodyEnd(c)
    \/ Cancel(c)

\* One caller, the body arriving piece by piece.
NextChunks == StepChunks("c1")

SpecChunks == InitBodies /\ [][NextChunks]_vars

----------------------------------------------------------------------------
(* How a call ended *)

\* The call has returned.
Done(c) == pc[c] = "done"

\* The call returned because send() failed: no response was received.
TransportFailed(c) == Done(c) /\ status[c] = 0

\* The call returned after its whole body had been received.
BodyReceived(c) == Done(c) /\ decoded[c] = 1

\* The body received does not decode into the wrapper the operation expects.
DecodeFails(c) ==
    IF req[c].op \in DebugOps
    THEN ~serde_path_to_error_deserialize(bytes[c], WrapperOf(req[c].op)).ok
    ELSE ~json(bytes[c], WrapperOf(req[c].op)).ok

\* The diagnostic counterpart of a plain operation.
Debugging(op) == op \o "_with_debugging"

ErrorEnvelope == <<LBrace, ErrorEntry, RBrace>>
EmptyArray == <<LBracket, RBracket>>

----------------------------------------------------------------------------
(* Claims *)

\* C1: a plain operation whose body was received but does not conform to the
\* expected JSON shape returns Error::DeserializeFailed, a kind other than
\* the transport failure's Error::RequestFailed.
C1_PlainDecodeFailureIsDeserializeFailed ==
    \A c \in Calls :
        (BodyReceived(c) /\ req[c].op \in PlainOps /\ DecodeFails(c))
            => /\ result[c].tag = "Err"
               /\ result[c].kind = "DeserializeFailed"
               /\ result[c].kind # "RequestFailed"

\* C2: when the transport call fails before a response is received, the
\* operation (plain or diagnostic) returns RequestFailed wrapping the transport
\* error, and no decode step is made for that call.
C2_TransportFailureNoDecode ==
    \A c \in Calls :
        TransportFailed(c)
            => /\ result[c].tag = "Err"
               /\ result[c].kind = "RequestFailed"
               /\ result[c].type = ErrorType(req[c].op)
               /\ result[c].cause = "request"
               /\ decoded[c] = 0
               /\ bytes[c] = <<>>

C2_Witness ==
    /\ TransportFailed("c1") /\ req["c1"].op \in PlainOps
    /\ TransportFailed("c2") /\ req["c2"].op \in DebugOps

\* C3 as stated: a diagnostic operation whose body fails to decode returns the
\* decode-failure kind carrying the failing path and the raw body text exactly
\* as received.
C3_DebuggingErrorCarriesRawBody ==
    \A c \in Calls :
        (BodyReceived(c) /\ req[c].op \in DebugOps /\ DecodeFails(c))
            => /\ result[c].tag = "Err"
               /\ result[c].type = "DebuggingError"
               /\ result[c].kind = "DeserializeFailed"
               /\ result[c].path # ""
               /\ result[c].response = Text(bytes[c])

\* C3 as amended: the error carries the failing path and, when the body is
\* valid UTF-8, the body text exactly as received; for a body that is not
\* valid UTF-8 it carries the text "Failed to convert bytes to string".
C3_DebuggingErrorCarriesUtf8Body ==
    \A c \in Calls :
        (BodyReceived(c) /\ req[c].op \in DebugOps /\ DecodeFails(c))
            => /\ result[c].tag = "Err"
               /\ result[c].type = "DebuggingError"
               /\ result[c].kind = "DeserializeFailed"
               /\ result[c].path # ""
               /\ (IsUtf8(bytes[c]) => result[c].response = Text(bytes[c]))
               /\ (~IsUtf8(bytes[c])
                     => result[c].response = "Failed to convert bytes to string")

C3_Witness ==
    /\ BodyReceived("c1")
    /\ req["c1"].op = "stations_with_debugging"
    /\ bytes["c1"] = <<LBrace, NoCodeEntry, RBrace>>
    /\ result["c1"].kind = "DeserializeFailed"
    /\ result["c1"].path = "ABE"
    /\ result["c1"].response = "{" \o NoCodeEntry \o "}"

\* C4: every invocation issues exactly one GET on every path it can take:
\* none before it is called, one from then on, never a second.
C4_ExactlyOneRequest ==
    \A c \in Calls :
        /\ pc[c] = "idle" => sent[c] = 0
        /\ pc[c] # "idle" => sent[c] = 1

C4_Witness ==
    /\ TransportFailed("c1") /\ sent["c1"] = 1
    /\ BodyReceived("c2") /\ DecodeFails("c2") /\ result["c2"].tag = "Err"
    /\ sent["c2"] = 1

\* The URL an operation requests for base endpoint B.
ExpectedUrl(B, op, arg) ==
    CASE op \in {"trains", "trains_with_debugging"} -> B \o "/trains"
      [] op \in {"train", "train_with_debugging"} -> B \o "/trains/" \o arg
      [] op \in {"stations", "stations_with_debugging"} -> B \o "/stations"
      [] op \in {"station", "station_with_debugging"} -> B \o "/stations/" \o arg

C5_UrlsOk ==
    /\ base_url \in BaseUrls
    /\ \A c \in Calls :
          pc[c] # "idle" => req[c].url = ExpectedUrl(base_url, req[c].op, req[c].arg)
    /\ \A c, d \in Calls :
          (pc[c] # "idle" /\ pc[d] # "idle" /\ req[c].op \in PlainOps
             /\ req[d].op = Debugging(req[c].op) /\ req[d].arg = req[c].arg)
            => req[d].url = req[c].url

\* C5: each operation requests B/trains, B/trains/id, B/stations or
\* B/stations/code for the client's base endpoint B, a diagnostic variant
\* requests the URL of its plain counterpart, and B never changes.
C5_RequestUrls == [](C5_UrlsOk) /\ [][base_url' = base_url]_vars

C5_Witness ==
    /\ base_url = "https://api-v3.amtraker.com/v3"
    /\ req["c1"] = [op |-> "train", arg |-> "612-5",
                    url |-> "https://api-v3.amtraker.com/v3/trains/612-5"]
    /\ req["c2"] = [op |-> "train_with_debugging", arg |-> "612-5",
                    url |-> "https://api-v3.amtraker.com/v3/trains/612-5"]
    /\ Done("c1") /\ Done("c2")

\* C6: whatever the interleaving, the result of a call is determined by the
\* response to its own request alone: it is what its operation makes of the
\* body that call received (or of that call's transport failure), and it holds
\* no entry that is not in that body.
C6_ResultFromOwnResponse ==
    \A c \in Calls :
        /\ BodyReceived(c) => result[c] = Return(req[c].op, bytes[c])
        /\ BodyReceived(c) =>
              \A e \in result[c].value :
                  \E i \in 1..Len(bytes[c]) :
                      bytes[c][i] \in Entries /\ EntryKey(bytes[c][i]) = e.key
        /\ (Done(c) /\ ~BodyReceived(c)) => result[c].kind = "RequestFailed"
        /\ ~Done(c) => result[c] = Pending

C6_Witness ==
    /\ BodyReceived("c1") /\ BodyReceived("c2")
    /\ req["c1"].op = "train" /\ req["c2"].op = "train"
    /\ req["c1"].arg = "612-5" /\ req["c2"].arg = "ABC"
    /\ bytes["c1"] = <<LBrace, TrainEntry, RBrace>>
    /\ bytes["c2"] = EmptyArray
    /\ result["c1"] = Ok({[key |-> "612", entity |-> "trains", stops |-> <<>>]})
    /\ result["c2"] = Ok({})

\* C7: when the upstream answers with an error envelope instead of data, the
\* operation returns ApiErrorResponse carrying the service's message, not a
\* decode failure or a transport failure.
C7_ErrorEnvelopeIsApiErrorResponse ==
    \A c \in Calls :
        (BodyReceived(c) /\ bytes[c] = ErrorEnvelope)
            => /\ result[c].tag = "Err"
               /\ result[c].kind = "ApiErrorResponse"
               /\ result[c].response = "Train not found"

\* C8: the station operation, given the body [], succeeds with an empty
\* StationsByCode mapping.
C8_EmptyArrayIsEmptyMapping ==
    \A c \in Calls :
        (BodyReceived(c) /\ req[c].op = "station" /\ bytes[c] = EmptyArray)
            => /\ result[c].tag = "Ok"
               /\ result[c].value = {}
               /\ Cardinality(result[c].value) = 0

C8_Witness ==
    /\ BodyReceived("c1")
    /\ req["c1"] = [op |-> "station", arg |-> "ABC",
                    url |-> "https://api-v3.amtraker.com/v3/stations/ABC"]
    /\ bytes["c1"] = <<"[", "]">>
    /\ result["c1"].tag = "Ok"

\* C9: on the same body a diagnostic operation succeeds exactly when its plain
\* counterpart succeeds, and then both return the same value.
C9_DebuggingAgreesWithPlain ==
    \A c, d \in Calls :
        (BodyReceived(c) /\ BodyReceived(d) /\ bytes[c] = bytes[d]
           /\ req[c].op \in PlainOps /\ req[d].op = Debugging(req[c].op))
            => /\ (result[c].tag = "Ok") <=> (result[d].tag = "Ok")
               /\ result[c].tag = "Ok" => result[c].value = result[d].value

\* C10: a *_with_debugging operation, when a deserialization error occurs,
\* returns Error::Other instead of a DeserializeFailed error.
C10_DebuggingReturnsOther ==
    \A c \in Calls :
        (BodyReceived(c) /\ req[c].op \in DebugOps /\ DecodeFails(c))
            => /\ result[c].tag = "Err"
               /\ result[c].kind = "Other"
               /\ result[c].kind # "DeserializeFailed"

----------------------------------------------------------------------------
(* Stop statuses *)

KnownStatusTokens == {"Enroute", "Station", "Departed"}

\* The body with the status string of every stop replaced by a known one.
WithKnownStatus(b) ==
    [i \in 1..Len(b) |-> IF b[i] \in StopEntries THEN TrainStopEntry("Enroute") ELSE b[i]]

\* The positions of the body that hold an entry.
EntryPositions(b) == {i \in 1..Len(b) : b[i] \in Entries}

\* C11: a stop record whose status string is not "Enroute", "Station" or
\* "Departed" decodes, with status Unknown: the operation succeeds on a body
\* exactly when it succeeds on that body with a known status string in its
\* place, and every decoded status is one of the four enumerated values.
C11_UnrecognizedStatusIsUnknown ==
    \A c \in Calls :
        BodyReceived(c) =>
            /\ result[c].tag = Return(req[c].op, WithKnownStatus(bytes[c])).tag
            /\ \A r \in result[c].value :
                  \A k \in 1..Len(r.stops) :
                      r.stops[k] \in {"Enroute", "Station", "Departed", "Unknown"}
            /\ LET o == SkipWs(bytes[c], 1)
                   i == SkipWs(bytes[c], o + 1)
               IN  (/\ result[c].tag = "Ok"
                    /\ i <= Len(bytes[c])
                    /\ bytes[c][o] = LBrace
                    /\ bytes[c][i] \in StopEntries
                    /\ EntryPositions(bytes[c]) = {i})
                     => result[c].value =
                          {[key |-> "612", entity |-> "trains",
                            stops |-> <<IF StatusTokenOf(bytes[c][i]) \in KnownStatusTokens
                                        THEN StatusTokenOf(bytes[c][i])
                                        ELSE "Unknown">>]}

C11_Witness ==
    /\ BodyReceived("c1")
    /\ req["c1"].op = "train"
    /\ bytes["c1"] = <<LBrace, TrainStopEntry("enroute"), RBrace>>
    /\ result["c1"] = Ok({[key |-> "612", entity |-> "trains", stops |-> <<"Unknown">>]})

----------------------------------------------------------------------------
(* Failures while the body is awaited *)

\* The response had arrived and the body was being awaited when reading it
\* failed (timeout, connection failure).
BodyFailed(c) == Done(c) /\ status[c] # 0 /\ decoded[c] = 0

\* The caller dropped the operation's future.
Cancelled(c) == pc[c] = "cancelled"

\* C12 as stated: a timeout, cancellation or connection failure that happens
\* while the body is awaited is returned as RequestFailed, never as a decode
\* failure, by plain and diagnostic operations alike; a cancelled call too
\* hands its caller a classified error.
C12_FailureAwaitingBodyIsRequestFailed ==
    \A c \in Calls :
        (BodyFailed(c) \/ (Cancelled(c) /\ status[c] # 0))
            => /\ result[c].tag = "Err"
               /\ result[c].kind = "RequestFailed"
               /\ result[c].kind # "DeserializeFailed"

\* C12 as amended: a timeout or connection failure while the body is awaited
\* is returned as RequestFailed of the operation's error enum, never as a
\* decode failure, and nothing is decoded; a call cancelled by its caller
\* returns nothing: no value, no error, no decode.
C12_BodyFailureIsRequestFailedCancelReturnsNothing ==
    \A c \in Calls :
        /\ BodyFailed(c)
            => /\ result[c].tag = "Err"
               /\ result[c].kind = "RequestFailed"
               /\ result[c].type = ErrorType(req[c].op)
               /\ result[c].kind # "DeserializeFailed"
               /\ decoded[c] = 0
        /\ Cancelled(c) => (result[c] = Pending /\ decoded[c] = 0)

C12_Witness ==
    /\ BodyFailed("c1") /\ req["c1"].op = "train"
    /\ result["c1"].kind = "RequestFailed"
    /\ Cancelled("c2") /\ status["c2"] # 0 /\ req["c2"].op = "train_with_debugging"
    /\ result["c2"].tag = "Pending"

----------------------------------------------------------------------------
(* Order of the steps *)

\* What holds at each position of a call.
C13_Positions ==
    \A c \in Calls :
        /\ pc[c] \in {"idle", "send", "body", "done", "cancelled"}
        /\ pc[c] = "idle" => (req[c] = NoRequest /\ sent[c] = 0)
        /\ pc[c] # "idle" => (req[c].url # "" /\ sent[c] = 1)
        /\ pc[c] \in {"idle", "send"} => (status[c] = 0 /\ bytes[c] = <<>>)
        /\ pc[c] = "body" => status[c] # 0
        /\ pc[c] # "done" => (decoded[c] = 0 /\ result[c] = Pending)
        /\ decoded[c] <= 1
        /\ decoded[c] = 1 => (Done(c) /\ result[c] = Return(req[c].op, bytes[c]))

\* How a call moves from one position to the next.
C13_Moves ==
    \A c \in Calls :
        /\ pc'[c] # pc[c] =>
              \/ pc[c] = "idle" /\ pc'[c] = "send"
              \/ pc[c] = "send" /\ pc'[c] \in {"body", "done", "cancelled"}
              \/ pc[c] = "body" /\ pc'[c] \in {"done", "cancelled"}
        /\ bytes'[c] # bytes[c] => pc[c] = "body"
        /\ decoded'[c] # decoded[c] =>
              (pc[c] = "body" /\ pc'[c] = "done"
                 /\ result'[c] = Return(req[c].op, bytes'[c]))
        /\ result'[c] # result[c] => (pc[c] \in {"send", "body"} /\ pc'[c] = "done")
        /\ pc[c] \in {"done", "cancelled"} =>
              (bytes'[c] = bytes[c] /\ result'[c] = result[c] /\ pc'[c] = pc[c])

\* C13: the steps of an operation occur in the order build URL, send GET,
\* receive the complete body, decode, return; nothing is decoded before the
\* body has ended, the body decoded is the complete body, and a call waits
\* only for the response and for the body.
C13_StepsInOrder == [](C13_Positions) /\ [][C13_Moves]_vars

C13_Witness ==
    /\ BodyReceived("c1")
    /\ req["c1"].op = "stations_with_debugging"
    /\ bytes["c1"] = <<LBrace, StationEntry, RBrace>>
    /\ result["c1"] = Ok({[key |-> "ABE", entity |-> "station", stops |-> <<>>]})

----------------------------------------------------------------------------
(* HTTP status *)

\* C14: the HTTP status of the response does not influence the outcome: two
\* calls of the same operation that received the same body return the same
\* result whatever their statuses, and a call whose body decodes succeeds
\* whatever its status.
C14_StatusDoesNotInfluenceOutcome ==
    /\ \A c, d \in Calls :
          (BodyReceived(c) /\ BodyReceived(d) /\ req[c].op = req[d].op
             /\ bytes[c] = bytes[d])
            => result[c] = result[d]
    /\ \A c \in Calls :
          (BodyReceived(c) /\ ~DecodeFails(c)) => result[c].tag = "Ok"

C14_Witness ==
    /\ BodyReceived("c1") /\ BodyReceived("c2")
    /\ status["c1"] = 200 /\ status["c2"] = 404
    /\ req["c1"].op = "station" /\ req["c2"].op = "station"
    /\ bytes["c1"] = <<LBrace, StationEntry, RBrace>>
    /\ bytes["c2"] = bytes["c1"]
    /\ result["c1"].tag = "Ok"
    /\ result["c2"] = result["c1"]

=============================================================================
